---- MODULE Spec2Model ----
(***************************************************************************)
(* Model of the crawl engine of the link checker (src/app.py): the Start   *)
(* and Stop handlers, the coordinator thread crawl(), the pool tasks       *)
(* process() and the fetcher fetch(), over a small universe of URLs.       *)
(***************************************************************************)
EXTENDS Integers, Sequences, FiniteSets, Bags, TLC

(***************************************************************************)
(* URLs.  A URL is the record urlparse() makes of it: scheme, netloc       *)
(* (host), path, query and fragment.  The empty string "" parses to the    *)
(* record with every part empty.                                           *)
(***************************************************************************)
URL(s, h, p, q, f) == [scheme |-> s, host |-> h, path |-> p, query |-> q, fragment |-> f]

EmptyURL == URL("", "", "", "", "")

\* Python's None, as a status code.
NONE == 0

BROKEN_CODES == {404, 410, 500, 502, 503}

RedirectCodes == {301, 302, 303, 307, 308}

\* Paths of the universe whose lower-cased form ends with one of
\* SKIP_EXTENSIONS.
SKIP_EXTENSIONS == {"/f.pdf"}

\* SKIP_PATTERNS: queries through which the URL contains "?page=" or
\* "&page=", and paths that contain "/cdn-cgi/".
SKIP_PATTERNS == [query |-> {"page=2"}, path |-> {"/cdn-cgi/x"}]

\* Paths that contain "/404" or "not-found".
NotFoundMarkers == {"/404"}

normalize(url) == [url EXCEPT !.query = "", !.fragment = ""]

is_internal(url, domain) == url.host = domain

PathHasSkipExtension(url) == url.path \in SKIP_EXTENSIONS

should_skip(url) ==
    \/ PathHasSkipExtension(url)
    \/ url.query \in SKIP_PATTERNS.query
    \/ url.path \in SKIP_PATTERNS.path

\* urljoin(base, ref) for the references of the universe: the empty
\* reference is the base itself, a reference with a scheme is absolute, any
\* other one is an absolute path on the base's scheme and host.
urljoin(base, ref) ==
    IF ref = EmptyURL THEN base
    ELSE IF ref.scheme # "" THEN ref
    ELSE [ref EXCEPT !.scheme = base.scheme, !.host = base.host]

\* Faulty variant of get_links: the extensions are not filtered.
get_links_AnyExtension(url, html, domain) ==
    LET full(href) == normalize(urljoin(url, href))
    IN  { full(href) : href \in { h \in html : full(h).scheme \in {"http", "https"} } }

\* The anchors of a page are the set of their href references.
get_links(url, html, domain) ==
    LET full(href) == normalize(urljoin(url, href))
    IN  { full(href) : href \in
            { h \in html : /\ full(h).scheme \in {"http", "https"}
                           /\ ~PathHasSkipExtension(full(h)) } }

HasNotFoundMarker(url) == url.path \in NotFoundMarkers

(***************************************************************************)
(* The universe: what the host may type as the start URL, what the sliders *)
(* may give, and how the web may answer a GET.                             *)
(***************************************************************************)
Site(path) == URL("https", "site", path, "", "")

Ref(path) == URL("", "", path, "", "")

\* "bad": a text without a scheme; urlparse() puts it in the path.
BadURL == URL("", "", "bad", "", "")

\* The number of anchors of a page.
MaxAnchors == 2

PagesOf(hrefs) == { p \in SUBSET hrefs : Cardinality(p) <= MaxAnchors }

External(path) == URL("https", "ext", path, "", "")

(***************************************************************************)
(* A world is one bounded choice of the crawl's inputs: the start URLs the *)
(* host may type, the values of the sliders (cap and threads), whether it   *)
(* presses Stop, and the ways the web may answer a GET (the statuses of a  *)
(* non-redirect answer, the pages, the Location headers of a redirect, the *)
(* URLs a followed redirect chain may end at, the errors raised).  In the  *)
(* errors "" stands for None.                                              *)
(***************************************************************************)
World(starts, caps, threads, stops, statuses, hrefs, locations, chain, errors) ==
    [starts |-> starts, caps |-> caps, threads |-> threads, stops |-> stops, statuses |-> statuses,
     pages |-> PagesOf(hrefs), locations |-> locations, chain |-> chain,
     errors |-> errors]

\* The world w where the site serves these pages only.
OnPages(w, pages) == [w EXCEPT !.pages = pages]

\* Pages that link to each other.
LinkWorld ==
    World({Site("/")}, {10}, {2}, FALSE, {200},
          {Ref("/a"), URL("", "", "/a", "utm=1", ""), Ref("/b"), External("/x")},
          {}, {}, {"Timeout"})

\* More pages than the cap.
CapWorld ==
    World({Site("/")}, {2}, {2}, FALSE, {200},
          {Ref("/a"), Ref("/b"), External("/x")}, {}, {}, {"Timeout"})

\* Redirects, soft 404s and failing fetches.
FetchWorld ==
    World({Site("/")}, {10}, {1}, FALSE, {200, 404},
          {Ref("/404"), External("/x")},
          {EmptyURL, Ref("/404"), Ref("/b"), External("/x")},
          {External("/y")},
          {"Connection error", "Timeout", "exception message"})

\* Pages that have moved, and two pages that link to the same one.
MovedWorld ==
    OnPages(World({Site("/")}, {10}, {2}, FALSE, {200}, {}, {External("/y")}, {}, {}),
            {{}, {Ref("/a"), Ref("/b")}, {External("/x")}})

\* One thread, and more links in the queue than a batch takes.
BatchWorld ==
    OnPages(World({Site("/")}, {10}, {1}, FALSE, {200}, {}, {}, {}, {}),
            {{}, {Ref("/a"), Ref("/b")}, {External("/x"), External("/y")},
             {External("/y"), External("/z")}})

\* The host presses Stop.
StopWorld ==
    World({Site("/")}, {10}, {2}, TRUE, {200}, {Ref("/a"), External("/x"), External("/y")}, {}, {}, {})

\* What the host may type, and links the filter knows.
HostWorld ==
    World({EmptyURL, Site("/"), BadURL, Site("/f.pdf"),
           URL("https", "site", "/", "page=2", ""), URL("https", "site", "/", "q=1", "top")},
          {2, 10}, {1, 2}, FALSE, {200, 500},
          {Ref("/"), Ref("/f.pdf"), Ref("/cdn-cgi/x"), URL("mailto", "", "me", "", "")},
          {}, {}, {"Timeout"})

Worlds == {"link", "cap", "batch", "fetch", "moved", "stop", "host"}

WorldOf(name) ==
    CASE name = "link" -> LinkWorld
      [] name = "cap" -> CapWorld
      [] name = "batch" -> BatchWorld
      [] name = "fetch" -> FetchWorld
      [] name = "moved" -> MovedWorld
      [] name = "stop" -> StopWorld
      [] name = "host" -> HostWorld

StartInputs == UNION { WorldOf(w).starts : w \in Worlds }

MaxLinksValues == UNION { WorldOf(w).caps : w \in Worlds }

ThreadsValues == UNION { WorldOf(w).threads : w \in Worlds }

NoBody == <<>>

Body(page) == <<page>>

(***************************************************************************)
(* fetch(url, domain): the set of the tuples it may return, one for each   *)
(* way the web may answer.  Beside the four values of the tuple a result   *)
(* records the number of requests.get calls made (nreq) and the resolved   *)
(* Location of a redirect answer (loc, EmptyURL when the first answer was  *)
(* no redirect).                                                           *)
(***************************************************************************)
Result(status, final_url, html, error, nreq, loc) ==
    [status |-> status, final_url |-> final_url, html |-> html,
     error |-> error, nreq |-> nreq, loc |-> loc]

\* Faulty variant of Raised: the except clauses lose the description of the error.
Raised_NoDescription(url, nreq, loc, w) ==
    { Result(NONE, url, NoBody, "", nreq, loc) : e \in w.errors }

\* The three except clauses.
Raised(url, nreq, loc, w) ==
    { Result(NONE, url, NoBody, e, nreq, loc) : e \in w.errors }

\* Line 69: the body of the followed request.
RedirectBody(url, domain, r2) ==
    IF is_internal(url, domain) /\ r2.status = 200 THEN Body(r2.page) ELSE NoBody

\* Line 70: the body of the first answer.
PlainBody(url, domain, status, page) ==
    IF is_internal(url, domain) /\ status = 200 THEN Body(page) ELSE NoBody

\* Faulty variant of FollowRedirect: no short cut for a not-found marker.
FollowRedirect_NoShortCut(url, domain, location, w) ==
    LET final_url == urljoin(url, location)
    IN  Raised(url, 2, final_url, w) \cup
        { Result(r2.status, r2.url, RedirectBody(url, domain, r2), "", 2, final_url) :
            r2 \in [status : w.statuses, url : {final_url} \cup w.chain, page : w.pages] }

\* Lines 64-69: the first answer is a redirect with this Location header.
FollowRedirect(url, domain, location, w) ==
    LET final_url == urljoin(url, location)
    IN  IF HasNotFoundMarker(final_url)
        THEN { Result(404, final_url, NoBody, "", 1, final_url) }
        ELSE Raised(url, 2, final_url, w) \cup
             { Result(r2.status, r2.url, RedirectBody(url, domain, r2), "", 2, final_url) :
                 r2 \in [status : w.statuses, url : {final_url} \cup w.chain, page : w.pages] }

fetch(url, domain, w) ==
    IF url.scheme \notin {"http", "https"}
    THEN \* requests.get raises MissingSchema or InvalidSchema
         { Result(NONE, url, NoBody, "exception message", 1, EmptyURL) }
    ELSE Raised(url, 1, EmptyURL, w)
         \cup { Result(s, url, PlainBody(url, domain, s, page), "", 1, EmptyURL) :
                  s \in w.statuses, page \in w.pages }
         \cup UNION { IF status \in RedirectCodes
                      THEN FollowRedirect(url, domain, location, w)
                      ELSE {} : status \in RedirectCodes, location \in w.locations }

(***************************************************************************)
(* The state.                                                              *)
(***************************************************************************)
VARIABLES
    results,        \* state["results"]: the list of Result Records
    visited,        \* state["visited"]
    queue,          \* state["queue"]: the list of (url, source) pairs
    stop,           \* state["stop"]: the value copied at line 167
    running,        \* state["running"]
    done,           \* state["done"]
    lock,           \* state["lock"]: "free", or the thread that holds it
    session_stop,   \* st.session_state.stop
    MAX_LINKS,      \* the global set at line 159
    THREADS,        \* the global set at line 160
    start_url,      \* crawl's argument
    domain,         \* crawl's local
    pc,             \* where the crawl thread is
    tasks,          \* the futures of the current batch, in submission order
    world,          \* the name of the world of this behaviour
    enqueued,       \* history: the bag of the URLs appended to the queue
    dispatched,     \* history: the bag of the URLs submitted to the pool
    failed,         \* history: the URLs whose fetch raised an exception
    written,        \* history: the bag of the URLs whose outcome was recorded
    appended,       \* history: the URLs appended to the queue, in order
    batches,        \* history: the batches drawn, in order
    at_stop         \* history: the crawl when Stop was pressed

vars == <<results, visited, queue, stop, running, done, lock, session_stop,
          MAX_LINKS, THREADS, start_url, domain, pc, tasks, world, enqueued, dispatched, failed,
          written, appended, batches, at_stop>>

shared == <<results, visited, queue>>

flags == <<stop, running, done, session_stop, MAX_LINKS, THREADS, start_url, domain, world>>

history == <<enqueued, dispatched, failed, written, appended, batches, at_stop>>

Record(source, url, status, final_url, error, dom) ==
    [source_page |-> source, url |-> url, status |-> status,
     final_url |-> final_url, error |-> error,
     type |-> IF is_internal(url, dom) THEN "internal" ELSE "external"]

\* A future of the pool: the arguments of process, its position and its locals.
Task(url, src) ==
    [url |-> url, src |-> src, pc |-> "pending",
     status |-> NONE, final_url |-> EmptyURL, error |-> "",
     nreq |-> 0, loc |-> EmptyURL,
     links |-> {}, todo |-> {}, new_urls |-> <<>>]

Init ==
    /\ results = <<>>
    /\ visited = {}
    /\ queue = <<>>
    /\ stop = FALSE
    /\ running = FALSE
    /\ done = FALSE
    /\ lock = "free"
    /\ session_stop = FALSE
    /\ MAX_LINKS = 10000
    /\ THREADS = 10
    /\ start_url = EmptyURL
    /\ domain = ""
    /\ pc = "idle"
    /\ tasks = <<>>
    /\ world \in Worlds
    /\ enqueued = EmptyBag
    /\ dispatched = EmptyBag
    /\ failed = {}
    /\ written = EmptyBag
    /\ appended = <<>>
    /\ batches = <<>>
    /\ at_stop = [pressed |-> FALSE, queued |-> {}, inflight |-> {}]

\* The name of the pool thread that runs the i-th future of the batch.
Worker(i) == "worker" \o ToString(i)

\* The future is past line 76 and not over.
InFlight(i) == tasks[i].pc \notin {"pending", "done"}

(***************************************************************************)
(* The host: the Start and Stop buttons.                                   *)
(***************************************************************************)
\* Lines 152-174: "if start and url_input", the reset, the state dict and
\* the start of the crawl thread.
StartHandler(url_input, max_links, threads) ==
    /\ pc = "idle"
    /\ url_input \in WorldOf(world).starts
    /\ max_links \in WorldOf(world).caps
    /\ threads \in WorldOf(world).threads
    /\ url_input # EmptyURL
    /\ results' = <<>>
    /\ visited' = {}
    /\ queue' = << <<url_input, url_input>> >>
    /\ session_stop' = FALSE
    /\ MAX_LINKS' = max_links
    /\ THREADS' = threads
    /\ stop' = session_stop'
    /\ done' = FALSE
    /\ running' = FALSE
    /\ start_url' = url_input
    /\ pc' = "start"
    /\ enqueued' = SetToBag({url_input})
    /\ appended' = <<url_input>>
    /\ at_stop' = [pressed |-> FALSE, queued |-> {}, inflight |-> {}]
    /\ UNCHANGED <<lock, domain, tasks, world, dispatched, failed, written, batches>>

\* Lines 149-150: the Stop button sets st.session_state.stop.
StopButton ==
    /\ WorldOf(world).stops
    /\ ~session_stop
    /\ session_stop' = TRUE
    /\ at_stop' = [pressed |-> TRUE,
                   queued |-> { queue[k][1] : k \in DOMAIN queue },
                   inflight |-> { tasks[i].url : i \in { j \in DOMAIN tasks : InFlight(j) } }]
    /\ UNCHANGED <<shared, stop, running, done, lock, MAX_LINKS, THREADS, start_url, domain,
                   pc, tasks, world, enqueued, dispatched, failed, written, appended, batches>>

(***************************************************************************)
(* crawl(start_url, state): the coordinator thread.                        *)
(***************************************************************************)
\* Lines 104-106.
CrawlBegin ==
    /\ pc = "start"
    /\ domain' = start_url.host
    /\ running' = TRUE
    /\ done' = FALSE
    /\ pc' = "loop"
    /\ UNCHANGED <<shared, stop, lock, session_stop, MAX_LINKS, THREADS, start_url, tasks, world, history>>

\* Lines 108-109: the test of the while loop, then the lock of the batch draw.
CrawlLoop ==
    /\ pc = "loop"
    /\ IF stop
       THEN pc' = "exit" /\ lock' = lock
       ELSE lock = "free" /\ lock' = "crawl" /\ pc' = "take"
    /\ UNCHANGED <<shared, flags, tasks, history>>

\* Faulty variants of Admit: without the test of the visited set, without the cap.
Admit_NoVisited(url, seen, cap) == Cardinality(seen) < cap

Admit_NoCap(url, seen, cap) == url \notin seen

\* Line 114: the test that admits a dequeued URL to the batch.
Admit(url, seen, cap) == url \notin seen /\ Cardinality(seen) < cap

\* Faulty variant of TakeBatch: pop() for pop(0), the newest item is drawn first.
RECURSIVE TakeBatch_Newest(_, _, _, _, _)
TakeBatch_Newest(q, seen, batch, cap, threads) ==
    IF q # <<>> /\ Len(batch) < threads * 2
    THEN LET url == q[Len(q)][1]
             src == q[Len(q)][2]
             rest == SubSeq(q, 1, Len(q) - 1)
         IN  IF Admit(url, seen, cap)
             THEN TakeBatch_Newest(rest, seen \cup {url}, Append(batch, <<url, src>>), cap, threads)
             ELSE TakeBatch_Newest(rest, seen, batch, cap, threads)
    ELSE [queue |-> q, visited |-> seen, batch |-> batch]

\* Faulty variant of TakeBatch: line 115 is lost, a drawn URL is not marked visited.
RECURSIVE TakeBatch_NoMark(_, _, _, _, _)
TakeBatch_NoMark(q, seen, batch, cap, threads) ==
    IF q # <<>> /\ Len(batch) < threads * 2
    THEN LET url == Head(q)[1]
             src == Head(q)[2]
         IN  IF Admit(url, seen, cap)
             THEN TakeBatch_NoMark(Tail(q), seen, Append(batch, <<url, src>>), cap, threads)
             ELSE TakeBatch_NoMark(Tail(q), seen, batch, cap, threads)
    ELSE [queue |-> q, visited |-> seen, batch |-> batch]

\* Lines 110-116: the loop that draws a batch, from its state (the queue, the
\* visited set and the batch so far) to its result.
RECURSIVE TakeBatch(_, _, _, _, _)
TakeBatch(q, seen, batch, cap, threads) ==
    IF q # <<>> /\ Len(batch) < threads * 2
    THEN LET url == Head(q)[1]
             src == Head(q)[2]
         IN  IF Admit(url, seen, cap)
             THEN TakeBatch(Tail(q), seen \cup {url}, Append(batch, <<url, src>>), cap, threads)
             ELSE TakeBatch(Tail(q), seen, batch, cap, threads)
    ELSE [queue |-> q, visited |-> seen, batch |-> batch]

RECURSIVE SeqToBag(_)
SeqToBag(seq) ==
    IF seq = <<>> THEN EmptyBag ELSE SetToBag({Head(seq)}) (+) SeqToBag(Tail(seq))

\* Lines 110-117 and 122: the batch is drawn under the lock; an empty batch
\* leads to the sleep of line 118, any other one is submitted to the pool.
CrawlTake ==
    /\ pc = "take"
    /\ LET t == TakeBatch(queue, visited, <<>>, MAX_LINKS, THREADS)
       IN  /\ queue' = t.queue
           /\ visited' = t.visited
           /\ tasks' = [i \in 1..Len(t.batch) |-> Task(t.batch[i][1], t.batch[i][2])]
           /\ dispatched' = dispatched (+) SeqToBag([i \in 1..Len(t.batch) |-> t.batch[i][1]])
           /\ batches' = IF t.batch = <<>> THEN batches
                          ELSE Append(batches, [urls |-> [i \in 1..Len(t.batch) |-> t.batch[i][1]],
                                                at |-> Len(appended)])
           /\ pc' = IF t.batch = <<>> THEN "sleep" ELSE "wait"
    /\ lock' = "free"
    /\ UNCHANGED <<results, flags, enqueued, failed, written, appended, at_stop>>

\* Lines 118-119: after the sleep, the lock of the second look at the queue.
CrawlSleep ==
    /\ pc = "sleep"
    /\ lock = "free"
    /\ lock' = "crawl"
    /\ pc' = "check"
    /\ UNCHANGED <<shared, flags, tasks, history>>

\* Faulty variant of CrawlCheck: the loop goes on when the queue is empty.
CrawlCheck_NoBreak ==
    /\ pc = "check"
    /\ pc' = "loop"
    /\ lock' = "free"
    /\ UNCHANGED <<shared, flags, tasks, history>>

\* Lines 120-121: break on an empty queue, continue otherwise.
CrawlCheck ==
    /\ pc = "check"
    /\ pc' = IF queue = <<>> THEN "exit" ELSE "loop"
    /\ lock' = "free"
    /\ UNCHANGED <<shared, flags, tasks, history>>

\* Faulty variant of CrawlWait: the loop goes on without the futures' results.
CrawlWait_NoBarrier ==
    /\ pc = "wait"
    /\ pc' = "loop"
    /\ UNCHANGED <<shared, flags, lock, tasks, history>>

\* Lines 123-126: every future of the batch has completed.
CrawlWait ==
    /\ pc = "wait"
    /\ \A i \in DOMAIN tasks : tasks[i].pc = "done"
    /\ tasks' = <<>>
    /\ pc' = "loop"
    /\ UNCHANGED <<shared, flags, lock, history>>

\* Lines 127-128.
CrawlExit ==
    /\ pc = "exit"
    /\ running' = FALSE
    /\ done' = TRUE
    /\ pc' = "done"
    /\ UNCHANGED <<shared, stop, lock, session_stop, MAX_LINKS, THREADS, start_url, domain, tasks, world, history>>

(***************************************************************************)
(* process(url, source, domain, state): a task of the pool.                *)
(***************************************************************************)
Active(i) == InFlight(i)

\* A thread of the pool takes the oldest pending future (at most THREADS of
\* them run) and runs line 76.
ProcessBegin(i) ==
    /\ tasks[i].pc = "pending"
    /\ \A j \in 1..(i - 1) : tasks[j].pc # "pending"
    /\ Cardinality({ j \in DOMAIN tasks : Active(j) }) < THREADS
    /\ tasks' = [tasks EXCEPT ![i].pc =
                    IF stop \/ should_skip(tasks[i].url) THEN "done" ELSE "fetch"]
    /\ UNCHANGED <<shared, flags, lock, pc, history>>

\* Line 79: the test that lets the links of a body be extracted.
Parses(url, html, dom) == html # NoBody /\ is_internal(url, dom)

\* Lines 77-80: the fetch, outside the lock, and the extraction of the links.
ProcessFetch(i) ==
    /\ tasks[i].pc = "fetch"
    /\ \E r \in fetch(tasks[i].url, domain, WorldOf(world)) :
         LET links == IF Parses(tasks[i].url, r.html, domain)
                      THEN get_links(tasks[i].url, r.html[1], domain)
                      ELSE {}
         IN  /\ tasks' = [tasks EXCEPT ![i] =
                 [@ EXCEPT !.status = r.status, !.final_url = r.final_url,
                           !.error = r.error,
                           !.nreq = r.nreq, !.loc = r.loc,
                           !.links = links, !.todo = links,
                           !.pc = IF links = {} THEN "record" ELSE "scan"]]
             /\ failed' = IF r.status = NONE THEN failed \cup {tasks[i].url} ELSE failed
    /\ UNCHANGED <<shared, flags, lock, pc, enqueued, dispatched, written, appended,
                   batches, at_stop>>

\* Line 81: the lock around the test of one link.
ProcessScanLock(i) ==
    /\ tasks[i].pc = "scan"
    /\ lock = "free"
    /\ lock' = Worker(i)
    /\ tasks' = [tasks EXCEPT ![i].pc = "scan_locked"]
    /\ UNCHANGED <<shared, flags, pc, history>>

\* Lines 80-83: one link of the set, in the set's iteration order.
ProcessScan(i) ==
    /\ tasks[i].pc = "scan_locked"
    /\ \E link \in tasks[i].todo :
         tasks' = [tasks EXCEPT ![i] =
             [@ EXCEPT !.new_urls = IF link \notin visited THEN Append(@, link) ELSE @,
                       !.todo = @ \ {link},
                       !.pc = IF tasks[i].todo = {link} THEN "record" ELSE "scan"]]
    /\ lock' = "free"
    /\ UNCHANGED <<shared, flags, pc, history>>

\* Faulty variant of ProcessRecordLock: the block of line 84 runs without the lock.
ProcessRecordLock_NoLock(i) ==
    /\ tasks[i].pc = "record"
    /\ tasks' = [tasks EXCEPT ![i].pc = "record_locked"]
    /\ UNCHANGED <<shared, flags, lock, pc, history>>

\* Line 84.
ProcessRecordLock(i) ==
    /\ tasks[i].pc = "record"
    /\ lock = "free"
    /\ lock' = Worker(i)
    /\ tasks' = [tasks EXCEPT ![i].pc = "record_locked"]
    /\ UNCHANGED <<shared, flags, pc, history>>

\* Line 85: the index of the first record of url, 0 when there is none.
Matched(res, url) ==
    IF \E k \in DOMAIN res : res[k].url = url
    THEN CHOOSE k \in DOMAIN res :
            /\ res[k].url = url
            /\ \A j \in 1..(k - 1) : res[j].url # url
    ELSE 0

\* Lines 87 and 91: the final_url of a record.
FinalField(final_url, url) == IF final_url # url THEN final_url ELSE EmptyURL

\* Faulty variant of WriteOutcome: a record that exists is left as it is.
WriteOutcome_NoUpdate(res, t, dom) ==
    IF Matched(res, t.url) # 0
    THEN res
    ELSE Append(res, Record(t.src, t.url, t.status,
                            FinalField(t.final_url, t.url), t.error, dom))

\* Lines 85-93: the outcome of the fetch goes to the record of url.
WriteOutcome(res, t, dom) ==
    LET k == Matched(res, t.url)
        final == FinalField(t.final_url, t.url)
    IN  IF k # 0
        THEN [res EXCEPT ![k] = [@ EXCEPT !.status = t.status, !.final_url = final,
                                          !.error = t.error]]
        ELSE Append(res, Record(t.src, t.url, t.status, final, t.error, dom))

\* Line 95: the test that lets a discovered link into the queue.
Novel(link, seen) == link \notin seen

\* Lines 94-101: the new links go to the queue, each with a placeholder.
RECURSIVE Enqueue(_, _, _, _, _, _)
Enqueue(q, res, new_urls, url, seen, dom) ==
    IF new_urls = <<>>
    THEN [queue |-> q, results |-> res, added |-> EmptyBag, order |-> <<>>]
    ELSE LET link == Head(new_urls)
         IN  IF Novel(link, seen)
             THEN LET rest == Enqueue(Append(q, <<link, url>>),
                                      Append(res, Record(url, link, NONE, EmptyURL, "", dom)),
                                      Tail(new_urls), url, seen, dom)
                  IN  [rest EXCEPT !.added = @ (+) SetToBag({link}),
                                   !.order = <<link>> \o @]
             ELSE Enqueue(q, res, Tail(new_urls), url, seen, dom)

\* Lines 84-101.
ProcessRecord(i) ==
    /\ tasks[i].pc = "record_locked"
    /\ LET e == Enqueue(queue, WriteOutcome(results, tasks[i], domain),
                        tasks[i].new_urls, tasks[i].url, visited, domain)
       IN  /\ queue' = e.queue
           /\ results' = e.results
           /\ enqueued' = enqueued (+) e.added
           /\ appended' = appended \o e.order
    /\ written' = written (+) SetToBag({tasks[i].url})
    /\ tasks' = [tasks EXCEPT ![i].pc = "done"]
    /\ lock' = "free"
    /\ UNCHANGED <<visited, flags, pc, dispatched, failed, batches, at_stop>>

(***************************************************************************)
(* The specification.                                                      *)
(***************************************************************************)
Next ==
    \/ \E url_input \in StartInputs, max_links \in MaxLinksValues, threads \in ThreadsValues :
          StartHandler(url_input, max_links, threads)
    \/ StopButton
    \/ CrawlBegin
    \/ CrawlLoop
    \/ CrawlTake
    \/ CrawlSleep
    \/ CrawlCheck
    \/ CrawlWait
    \/ CrawlExit
    \/ \E i \in DOMAIN tasks : ProcessBegin(i)
    \/ \E i \in DOMAIN tasks : ProcessFetch(i)
    \/ \E i \in DOMAIN tasks : ProcessScanLock(i)
    \/ \E i \in DOMAIN tasks : ProcessScan(i)
    \/ \E i \in DOMAIN tasks : ProcessRecordLock(i)
    \/ \E i \in DOMAIN tasks : ProcessRecord(i)

Spec == Init /\ [][Next]_vars

\* The steps of the thread that runs crawl.
CrawlThread ==
    CrawlBegin \/ CrawlLoop \/ CrawlTake \/ CrawlSleep \/ CrawlCheck \/ CrawlWait \/ CrawlExit

\* The steps of the threads of the pool.
PoolThreads ==
    \E i \in DOMAIN tasks :
        \/ ProcessBegin(i)
        \/ ProcessFetch(i)
        \/ ProcessScanLock(i)
        \/ ProcessScan(i)
        \/ ProcessRecordLock(i)
        \/ ProcessRecord(i)

\* A started thread that can run does run (the operating system schedules
\* it), and every requests.get returns or raises within its timeout (line
\* 61); the host is free never to press a button again.
FairSpec == Spec /\ WF_vars(CrawlThread) /\ WF_vars(PoolThreads)

(***************************************************************************)
(* Properties.                                                             *)
(***************************************************************************)
Enqueued(u) == IF u \in BagToSet(enqueued) THEN CopiesIn(u, enqueued) ELSE 0

Dispatched(u) == IF u \in BagToSet(dispatched) THEN CopiesIn(u, dispatched) ELSE 0

\* C1: no URL is appended to the queue twice over the whole crawl.
C1_NoURLEnqueuedTwice == \A u \in BagToSet(enqueued) : Enqueued(u) <= 1

\* C2: every URL is submitted to the pool, and so fetched, at most once.
C2_NoURLDispatchedTwice == \A u \in BagToSet(dispatched) : Dispatched(u) <= 1

\* A URL was appended to the queue twice and discovered again after its
\* dispatch, and the crawl has ended with one dispatch of it.
C2_Witness ==
    /\ pc = "done"
    /\ \E u \in BagToSet(enqueued) : Enqueued(u) >= 2 /\ Dispatched(u) = 1

\* C3: the visited set never has more elements than the page cap.
C3_CapRespected == Cardinality(visited) <= MAX_LINKS

\* The crawl ended at the cap with a discovered URL left out.
C3_Witness ==
    /\ pc = "done"
    /\ Cardinality(visited) = MAX_LINKS
    /\ \E u \in BagToSet(enqueued) : u \notin visited

\* C4: once the Stop button has set the cancellation flag of a running
\* crawl, no further URL is dispatched.
C4_StopHaltsDispatch ==
    [][(session_stop /\ running) => dispatched' = dispatched]_vars

HasStatus(u) == \E k \in DOMAIN results : results[k].url = u /\ results[k].status # NONE

C6_OneRecordPerURL ==
    \A j, k \in DOMAIN results : results[j].url = results[k].url => j = k

Finished(u) == \A i \in DOMAIN tasks : tasks[i].url = u => tasks[i].pc = "done"

\* A URL whose fetch raised has, once its task is over, a record with null
\* status and a description of the error.
FailureRecorded ==
    \A u \in failed :
        Finished(u) => LET k == Matched(results, u)
                       IN  /\ k # 0
                           /\ results[k].status = NONE
                           /\ results[k].error # ""

ValidStart(url) == url.scheme \in {"http", "https"} /\ url.host # ""

\* C8: an invalid start URL is rejected before anything is dispatched, and
\* no record of a fetch error is made for it.
C8_InvalidStartRejected ==
    ~ValidStart(start_url) => dispatched = EmptyBag /\ results = <<>>

\* C9: links are extracted only from a body that the start domain served
\* with status 200.
C9_BodiesOnlyFromInternal200 ==
    \A i \in DOMAIN tasks :
        tasks[i].links # {} =>
            tasks[i].status = 200 /\ is_internal(tasks[i].final_url, domain)

\* The task ended on a redirect whose resolved Location has the marker.
SoftNotFound(t) == t.pc = "done" /\ t.loc # EmptyURL /\ HasNotFoundMarker(t.loc)

\* C10: a redirect to a not-found marker gives status 404, the resolved
\* target as final_url, no error, and one request.
C10_RedirectSoft404 ==
    \A i \in DOMAIN tasks :
        SoftNotFound(tasks[i]) =>
            LET r == results[Matched(results, tasks[i].url)]
            IN  /\ r.status = 404
                /\ r.final_url = tasks[i].loc
                /\ r.error = ""
                /\ tasks[i].nreq = 1

\* C10 as amended: the final_url is the resolved target, or empty when the
\* target is the URL itself.
C10_RedirectSoft404OrSelf ==
    \A i \in DOMAIN tasks :
        SoftNotFound(tasks[i]) =>
            LET r == results[Matched(results, tasks[i].url)]
            IN  /\ r.status = 404
                /\ tasks[i].loc # tasks[i].url => r.final_url = tasks[i].loc
                /\ tasks[i].loc = tasks[i].url => r.final_url = EmptyURL
                /\ r.error = ""
                /\ tasks[i].nreq = 1

\* One task was redirected to a marker elsewhere, another one to itself.
C10_Witness ==
    \E i, j \in DOMAIN tasks :
        /\ SoftNotFound(tasks[i]) /\ tasks[i].loc # tasks[i].url
        /\ SoftNotFound(tasks[j]) /\ tasks[j].loc = tasks[j].url

(***************************************************************************)
(* C11.  No record of the results has a url whose path ends in a skipped   *)
(* extension (.pdf) or whose query is the skipped page=2, be the URL the   *)
(* start URL or a link found on a page.                                    *)
(***************************************************************************)
C11_NoSkippedURLRecorded ==
    \A k \in DOMAIN results :
        /\ ~PathHasSkipExtension(results[k].url)
        /\ results[k].url.query \notin SKIP_PATTERNS.query

\* A crawl is over whose start URL carried ?page=2: it was drawn from the
\* queue, process returned at line 76, and nothing was recorded.
C11_Witness ==
    /\ done
    /\ start_url.query \in SKIP_PATTERNS.query
    /\ Dispatched(start_url) = 1
    /\ results = <<>>

(***************************************************************************)
(* C12.  Every URL given to fetch is canonical: its query and its fragment *)
(* are empty.  (The code breaks it: line 156 puts the start URL in the     *)
(* queue as it was typed.)                                                 *)
(***************************************************************************)
C12_FetchedURLCanonical ==
    \A i \in DOMAIN tasks :
        tasks[i].pc = "fetch" => tasks[i].url = normalize(tasks[i].url)

(***************************************************************************)
(* C13.  When every fetch returns, a started crawl ends: the thread finds  *)
(* its batch empty and the queue empty, leaves the loop, and sets running  *)
(* false and done true.  It never waits for ever on an empty queue.        *)
(***************************************************************************)
C13_CrawlTerminates ==
    (pc = "start") ~> (done /\ ~running /\ queue = <<>> /\ tasks = <<>>)

\* A crawl that fetched three URLs or more is over, its queue empty.
C13_Witness ==
    /\ done
    /\ ~running
    /\ queue = <<>>
    /\ Cardinality(visited) >= 3
    /\ Len(batches) >= 2

(***************************************************************************)
(* C14.  The number of the records of the results never exceeds the page   *)
(* cap, as the size of the visited set does not.  (The code breaks it: a   *)
(* record is appended for every link put in the queue, and the cap is      *)
(* tested only when a URL leaves the queue.)                               *)
(***************************************************************************)
C14_RecordsWithinCap ==
    (running /\ start_url = Site("/")) => Len(results) <= MAX_LINKS

(***************************************************************************)
(* C15.  The outcome of a URL is written to its record once, by the fetch  *)
(* that completed: a URL whose outcome is recorded never has it written a  *)
(* second time, its record never changes again, and the URL is never       *)
(* appended to the queue again.                                            *)
(***************************************************************************)
Written(u) == IF u \in BagToSet(written) THEN CopiesIn(u, written) ELSE 0

C15_ResolvedOnce ==
    [][\A u \in BagToSet(written) :
          /\ written'[u] = written[u]
          /\ enqueued'[u] = enqueued[u]
          /\ LET k == Matched(results, u)
             IN  k # 0 /\ Len(results') >= k /\ results'[k] = results[k]]_vars

\* A finished call found, on its page, a link to a URL resolved in an
\* earlier batch; the URL was put in the queue once and written once.
C15_Witness ==
    \E i \in DOMAIN tasks :
        /\ tasks[i].pc = "done"
        /\ \E u \in tasks[i].links :
              /\ Written(u) = 1
              /\ Enqueued(u) = 1
              /\ \A j \in DOMAIN tasks : tasks[j].url # u

(***************************************************************************)
(* C16.  When the fetch of u is answered by a redirect whose target has no *)
(* not-found marker and the followed request answers 200, there is exactly *)
(* one record of u, its status is 200, and its final_url is the URL the    *)
(* redirect led to, empty exactly when that URL is u.  (The code breaks    *)
(* it where C1 is broken: u put in the queue twice has two records.)       *)
(***************************************************************************)
OrdinaryRedirect(t) ==
    t.pc = "done" /\ t.loc # EmptyURL /\ ~HasNotFoundMarker(t.loc) /\ t.status = 200

\* What line 87 writes for an ordinary redirect, in the first record of u.
RedirectRecorded(t) ==
    LET r == results[Matched(results, t.url)]
    IN  /\ r.status = 200
        /\ t.nreq = 2
        /\ r.error = ""
        /\ t.final_url # t.url => r.final_url = t.final_url
        /\ t.final_url = t.url => r.final_url = EmptyURL

C16_OrdinaryRedirect ==
    \A i \in DOMAIN tasks :
        OrdinaryRedirect(tasks[i]) =>
            /\ Cardinality({ k \in DOMAIN results : results[k].url = tasks[i].url }) = 1
            /\ RedirectRecorded(tasks[i])

C16_FirstRecordRight ==
    \A i \in DOMAIN tasks : OrdinaryRedirect(tasks[i]) => RedirectRecorded(tasks[i])

(***************************************************************************)
(* C17.  The queue is first in, first out: of two dispatched URLs, the one *)
(* appended to the queue first is submitted first, so it is never in a     *)
(* later batch than the other.                                             *)
(***************************************************************************)
\* The place of the first append of u in the history of the queue.
FirstAppend(u) ==
    CHOOSE k \in DOMAIN appended :
        appended[k] = u /\ \A j \in 1..(k - 1) : appended[j] # u

\* The batch that holds u, and the place of u in it.
BatchOf(u) ==
    CHOOSE b \in DOMAIN batches : \E i \in DOMAIN batches[b].urls : batches[b].urls[i] = u

PlaceOf(u) ==
    CHOOSE i \in DOMAIN batches[BatchOf(u)].urls : batches[BatchOf(u)].urls[i] = u

C17_FirstInFirstOut ==
    \A u, v \in BagToSet(dispatched) :
        FirstAppend(u) < FirstAppend(v) =>
            \/ BatchOf(u) < BatchOf(v)
            \/ BatchOf(u) = BatchOf(v) /\ PlaceOf(u) < PlaceOf(v)

\* A batch was full, and the next batch holds a URL that was in the queue
\* already when the full batch was drawn.
C17_Witness ==
    \E b \in DOMAIN batches :
        /\ b + 1 \in DOMAIN batches
        /\ Len(batches[b].urls) = THREADS * 2
        /\ \E i \in DOMAIN batches[b + 1].urls :
              FirstAppend(batches[b + 1].urls[i]) <= batches[b].at

(***************************************************************************)
(* C18.  A worker that is inside fetch does not own the lock (the lock is  *)
(* owned by a worker only inside the blocks of lines 81 and 84), and every *)
(* step of the crawl that changes the visited set, the queue or the        *)
(* results is taken while the lock is held.                                *)
(***************************************************************************)
C18_LockDiscipline ==
    /\ [](\A i \in DOMAIN tasks :
            /\ tasks[i].pc = "fetch" => lock # Worker(i)
            /\ lock = Worker(i) => tasks[i].pc \in {"scan_locked", "record_locked"})
    /\ [](lock = "crawl" => pc \in {"take", "check"})
    /\ [][(pc # "idle" /\ shared' # shared) => lock # "free"]_vars

\* One worker is inside fetch while another one owns the lock and is about
\* to write the results and the queue.
C18_Witness ==
    \E i, j \in DOMAIN tasks :
        /\ tasks[i].pc = "fetch"
        /\ tasks[j].pc = "record_locked"
        /\ tasks[j].new_urls # <<>>
        /\ lock = Worker(j)

(***************************************************************************)
(* C19.  When Stop is pressed while fetches are in flight and URLs are in  *)
(* the queue, every fetch in flight completes and its outcome is written   *)
(* to its record, and the URLs that were in the queue are never fetched:   *)
(* each keeps its record with the null status.  (The code breaks it where  *)
(* C4 is broken: the crawl does not see the Stop.)                         *)
(***************************************************************************)
\* The URL has its placeholder and nothing was written to it.
KeptPending(u) ==
    /\ Written(u) = 0
    /\ \E k \in DOMAIN results : results[k].url = u
    /\ \A k \in DOMAIN results : results[k].url = u => results[k].status = NONE

StoppedMidCrawl == at_stop.pressed /\ at_stop.inflight # {} /\ at_stop.queued # {}

\* The fetches in flight at the Stop are recorded when the crawl is over.
InFlightRecorded == done => \A u \in at_stop.inflight : Written(u) = 1

C19_StopSparesInFlightOnly ==
    StoppedMidCrawl =>
        /\ InFlightRecorded
        /\ \A u \in at_stop.queued \ at_stop.inflight : KeptPending(u)

C19_InFlightCompletes == StoppedMidCrawl => InFlightRecorded

(***************************************************************************)
(* C20.  The crawl thread draws a batch, looks at the queue to decide to   *)
(* end, and ends, only when no call of the batch before is still running;  *)
(* so once done is true the queue, the visited set and the results never   *)
(* change again.                                                           *)
(***************************************************************************)
C20_BatchBarrier ==
    /\ [](pc \in {"loop", "take", "sleep", "check", "exit", "done"} =>
            \A i \in DOMAIN tasks : ~InFlight(i) /\ tasks[i].pc # "pending")
    /\ [](done => pc = "done")
    /\ [][done => shared' = shared]_vars

\* The crawl thread waits at the barrier: one call of the batch is over,
\* another is running, and the queue has URLs to draw.
C20_Witness ==
    /\ pc = "wait"
    /\ queue # <<>>
    /\ \E i, j \in DOMAIN tasks : tasks[i].pc = "done" /\ InFlight(j)

====
